---- MODULE Spec2Model ----
(***************************************************************************)
(* Telegram unban bot (src/app.py): Config.validate() at import, the       *)
(* process lifecycle of main(), the Flask routes /webhook, /set_webhook    *)
(* and /health, the handlers registered on the bot application and         *)
(* process_unban_request with its classification of remote errors.         *)
(*                                                                         *)
(* Texts are TLA+ strings; a character is a string of length one.          *)
(***************************************************************************)
EXTENDS Integers, Sequences, FiniteSets, TLC

VARIABLES env, errors, mainPc, bot_app, runner, flaskUp, exitCode, req

vars == <<env, errors, mainPc, bot_app, runner, flaskUp, exitCode, req>>

lifeVars == <<env, errors, mainPc, bot_app, runner, flaskUp, exitCode>>

(***************************************************************************)
(* Bounds of the model.                                                    *)
(***************************************************************************)
\* longest argument of /unban that is drawn
MaxArgLen == 3
\* longest text of a direct message that is drawn
MaxTextLen == 5
\* most fragments an error message of the bot client is built from
MaxFrags == 2

(***************************************************************************)
(* Strings: the str methods the handlers use.                              *)
(***************************************************************************)
Whitespace == {" "}

DigitChars == {"0", "1", "2", "3", "4", "5", "6", "7", "8", "9"}

LastChar(s) == SubSeq(s, Len(s), Len(s))

RECURSIVE LStrip(_)
LStrip(s) == IF s # "" /\ Head(s) \in Whitespace THEN LStrip(Tail(s)) ELSE s

RECURSIVE RStrip(_)
RStrip(s) ==
    IF s # "" /\ LastChar(s) \in Whitespace
    THEN RStrip(SubSeq(s, 1, Len(s) - 1))
    ELSE s

\* str.strip()
Strip(s) == RStrip(LStrip(s))

\* str.isdigit(): at least one character, and every character a digit
IsDigit(s) == s # "" /\ \A i \in 1..Len(s) : SubSeq(s, i, i) \in DigitChars

\* str.startswith(p)
StartsWith(s, p) == Len(s) >= Len(p) /\ SubSeq(s, 1, Len(p)) = p

\* p in s
Contains(p, s) ==
    \E i \in 1..(Len(s) - Len(p) + 1) : SubSeq(s, i, i + Len(p) - 1) = p

\* s[:n]
Prefix(s, n) == IF Len(s) <= n THEN s ELSE SubSeq(s, 1, n)

LowerChar(c) ==
    CASE c = "A" -> "a" [] c = "B" -> "b" [] c = "C" -> "c" [] c = "D" -> "d"
      [] c = "E" -> "e" [] c = "F" -> "f" [] c = "G" -> "g" [] c = "H" -> "h"
      [] c = "I" -> "i" [] c = "J" -> "j" [] c = "K" -> "k" [] c = "L" -> "l"
      [] c = "M" -> "m" [] c = "N" -> "n" [] c = "O" -> "o" [] c = "P" -> "p"
      [] c = "Q" -> "q" [] c = "R" -> "r" [] c = "S" -> "s" [] c = "T" -> "t"
      [] c = "U" -> "u" [] c = "V" -> "v" [] c = "W" -> "w" [] c = "X" -> "x"
      [] c = "Y" -> "y" [] c = "Z" -> "z" [] OTHER -> c

\* str.lower()
RECURSIVE Lower(_)
Lower(s) == IF s = "" THEN "" ELSE LowerChar(Head(s)) \o Lower(Tail(s))

(***************************************************************************)
(* int(s): surrounding whitespace is dropped, one sign is allowed, and the *)
(* rest is digits with single underscores between them.                    *)
(***************************************************************************)
IntBody(s) ==
    LET b == Strip(s)
    IN  IF b # "" /\ Head(b) \in {"+", "-"} THEN Tail(b) ELSE b

\* int(s) returns (does not raise ValueError)
IntParses(s) ==
    LET d == IntBody(s)
    IN  /\ d # ""
        /\ \A i \in 1..Len(d) : SubSeq(d, i, i) \in DigitChars \cup {"_"}
        /\ Head(d) \in DigitChars
        /\ LastChar(d) \in DigitChars
        /\ ~Contains("__", d)

DigitValue(c) ==
    CASE c = "0" -> 0 [] c = "1" -> 1 [] c = "2" -> 2 [] c = "3" -> 3
      [] c = "4" -> 4 [] c = "5" -> 5 [] c = "6" -> 6 [] c = "7" -> 7
      [] c = "8" -> 8 [] c = "9" -> 9

RECURSIVE DigitsValue(_, _)
DigitsValue(d, acc) ==
    IF d = "" THEN acc
    ELSE IF Head(d) = "_" THEN DigitsValue(Tail(d), acc)
    ELSE DigitsValue(Tail(d), 10 * acc + DigitValue(Head(d)))

\* the value of int(s), for s with IntParses(s)
IntValue(s) ==
    LET b == Strip(s)
        v == DigitsValue(IntBody(s), 0)
    IN  IF Head(b) = "-" THEN 0 - v ELSE v

(***************************************************************************)
(* Inputs: the strings, updates, request bodies and error messages drawn.  *)
(***************************************************************************)
RECURSIVE StringsOfLen(_, _)
StringsOfLen(A, n) ==
    IF n = 0 THEN {""}
    ELSE {s \o c : s \in StringsOfLen(A, n - 1), c \in A}

StringsUpTo(A, n) == UNION {StringsOfLen(A, k) : k \in 0..n}

\* context.args holds the whitespace-separated words after the command
ArgAlphabet == {"0", "1", "-", "+", "_", "a"}

ArgStrings == StringsUpTo(ArgAlphabet, MaxArgLen) \ {""}

TextAlphabet == {"1", "a", "/", " "}

TextStrings == StringsUpTo(TextAlphabet, MaxTextLen) \ {""}

NoUpdate == [kind |-> "none", name |-> "", args |-> <<>>, text |-> ""]

Command(name, args) ==
    [kind |-> "command", name |-> name, args |-> args, text |-> ""]

\* a text message of a private chat that carries no command entity
DirectMessage(text) ==
    [kind |-> "text", name |-> "", args |-> <<>>, text |-> text]

\* an update no handler is registered for
OtherUpdate == [kind |-> "other", name |-> "", args |-> <<>>, text |-> ""]

Updates ==
    {Command(n, <<>>) : n \in {"start", "help", "unban", "settings"}}
        \cup {Command("unban", <<a>>) : a \in ArgStrings}
        \cup {DirectMessage(s) : s \in TextStrings}
        \cup {OtherUpdate}

\* the updates drawn where the error messages are drawn in full
FewUpdates ==
    {Command("start", <<>>), Command("help", <<>>), OtherUpdate,
     Command("unban", <<>>), Command("unban", <<"10">>), Command("unban", <<"a">>),
     DirectMessage("11111"), DirectMessage("a")}

\* what the bot client's exceptions say: pieces of the Bot API's descriptions
Fragments ==
    {"not enough rights", "chat not found", "user not found", "not banned",
     "Not Enough Rights", "CHAT NOT FOUND", "Bad Request", "Timed out"}

Join(s, f) ==
    IF s = "" THEN f ELSE IF f = "" THEN s ELSE s \o ": " \o f

RECURSIVE FragmentStrings(_)
FragmentStrings(n) ==
    IF n = 0 THEN {""}
    ELSE {Join(s, f) : s \in FragmentStrings(n - 1), f \in Fragments \cup {""}}

ErrorMessages == FragmentStrings(MaxFrags)

\* the error messages drawn where the id strings are drawn in full
FewErrorMessages == Fragments

\* str(e) of telegram.error.TimedOut, raised when a client timeout
\* (read_timeout, write_timeout, connect_timeout, pool_timeout) runs out
TimedOutMessage == "Timed out"

\* the bodies a POST to /webhook can carry
Bodies(U) ==
    {[kind |-> "update", update |-> u] : u \in U}
        \cup {[kind |-> k, update |-> NoUpdate] :
                 k \in {"empty_json", "malformed", "not_json"}}

\* request.get_json(): the parsed JSON; None or an UnsupportedMediaType error
\* (by the Flask version) when the body is not declared JSON; a BadRequest
\* error when the body is declared JSON and does not parse
GetJson(body) ==
    CASE body.kind = "update" -> {"dict"}
      [] body.kind = "empty_json" -> {"falsy"}
      [] body.kind = "not_json" -> {"falsy", "raises"}
      [] body.kind = "malformed" -> {"raises"}

(***************************************************************************)
(* Configuration and the reply texts.                                      *)
(***************************************************************************)
CHANNEL_ID == -100555

\* values of the environment variable BOT_TOKEN: unset, blank, without
\* "bot" and ":", and well-formed
TokenEnv == {"", " ", "abc", "123:abc"}

\* values of the environment variable CHANNEL_ID: unset, blank, not a
\* number, and the channel's id
ChannelEnv == {"", " ", "x", "-100555"}

\* Config.BOT_TOKEN and Config.CHANNEL_ID as the class body reads them
ConfigValue(value) == Strip(value)

\* the check of BOT_TOKEN
TokenErrors(token) ==
    IF token = "" THEN <<"BOT_TOKEN is not set">>
    ELSE IF ~StartsWith(token, "bot") /\ ~Contains(":", token)
    THEN <<"BOT_TOKEN format is invalid. Should be like: 1234567890:ABCdefGhIJKlmNoPQRsTUVwxyZ">>
    ELSE <<>>

\* the check of CHANNEL_ID, int(cls.CHANNEL_ID) with its ValueError
ChannelErrors(channel) ==
    IF channel = "" THEN <<"CHANNEL_ID is not set">>
    ELSE IF ~IntParses(channel) THEN <<"CHANNEL_ID must be a number">>
    ELSE <<>>

\* validate() returning at the first error it finds
ValidateErrors_FirstOnly(token, channel) ==
    IF TokenErrors(token) # <<>> THEN TokenErrors(token)
    ELSE ChannelErrors(channel)

\* the list errors of Config.validate()
ValidateErrors(token, channel) == TokenErrors(token) \o ChannelErrors(channel)

\* a text that does not show the channel id
NoChannel == {}

\* a text that shows Config.CHANNEL_ID
TheChannel == {CHANNEL_ID}

Text(tmpl, user, channel, detail) ==
    [tmpl |-> tmpl, user |-> user, channel |-> channel, detail |-> detail]

WelcomeText == Text("Welcome", "", TheChannel, "")
HelpText == Text("Help", "", TheChannel, "")
UsageText == Text("Usage", "", NoChannel, "")
GuidanceText == Text("Guidance", "", NoChannel, "")
ProcessingText(user_id) == Text("Processing", user_id, TheChannel, "")
SuccessText(user_id) == Text("Success", user_id, TheChannel, "")
InvalidIdText == Text("InvalidId", "", NoChannel, "")
PermissionDeniedText == Text("PermissionDenied", "", TheChannel, "")
ChatNotFoundText == Text("ChatNotFound", "", TheChannel, "")
UserNotFoundText == Text("UserNotFound", "", NoChannel, "")
NotBannedText(user_id) == Text("NotBanned", user_id, NoChannel, "")
OtherErrorText(error_msg) == Text("OtherError", "", NoChannel, Prefix(error_msg, 200))
GenericErrorText == Text("GenericError", "", NoChannel, "")

(***************************************************************************)
(* The state.  mainPc is main()'s position; bot_app is whether the global  *)
(* bot_app holds an Application (FALSE: None); runner is the state of that *)
(* Application; flaskUp is whether the HTTP thread has been started;       *)
(* exitCode is the process's exit status (-1 while it runs).  req[t] is    *)
(* the webhook request HTTP thread t is serving.                           *)
(***************************************************************************)
ThreadIds == {1, 2}

IdleReq ==
    [pc |-> "idle", route |-> "none", body |-> "none", upd |-> NoUpdate,
     dispatched |-> FALSE,
     entered |-> FALSE, user_id |-> "", raised |-> "none", err |-> "",
     timedOut |-> FALSE,
     outcome |-> "none", sent |-> <<>>, calls |-> <<>>, placeholder |-> "none",
     expired |-> FALSE, resp |-> 0]

\* the environment the process is started in
Envs == [BOT_TOKEN : TokenEnv, CHANNEL_ID : ChannelEnv]

Init ==
    /\ env \in Envs
    /\ errors = <<>>
    /\ mainPc = "validate"
    /\ bot_app = FALSE
    /\ runner = "Starting"
    /\ flaskUp = FALSE
    /\ exitCode = -1
    /\ req = [t \in ThreadIds |-> IdleReq]

(***************************************************************************)
(* main() and initialize_bot().                                            *)
(***************************************************************************)
\* if not Config.validate(): sys.exit(1), at import, before main()
Validate ==
    /\ mainPc = "validate"
    /\ errors' = ValidateErrors(ConfigValue(env.BOT_TOKEN),
                                ConfigValue(env.CHANNEL_ID))
    /\ IF errors' # <<>>
       THEN mainPc' = "exited" /\ exitCode' = 1
       ELSE mainPc' = "create" /\ exitCode' = exitCode
    /\ UNCHANGED <<env, bot_app, runner, flaskUp, req>>

\* main() going on to the HTTP thread whatever initialize_bot returned
InitializeFails_NoExit ==
    /\ mainPc' = "run_flask"
    /\ exitCode' = exitCode
    /\ UNCHANGED <<flaskUp, req, env, errors>>

\* initialize_bot's except branch returns False and main() exits with 1
InitializeFails ==
    /\ mainPc' = "exited"
    /\ exitCode' = 1
    /\ UNCHANGED <<flaskUp, req, env, errors>>

CreateBotApplication ==
    /\ mainPc = "create"
    /\ \/ /\ bot_app' = TRUE
          /\ mainPc' = "initialize"
          /\ UNCHANGED <<runner, flaskUp, exitCode, req, env, errors>>
       \/ /\ InitializeFails
          /\ UNCHANGED <<bot_app, runner>>

Initialize ==
    /\ mainPc = "initialize"
    /\ \/ /\ runner' = "Initialized"
          /\ mainPc' = "get_me"
          /\ UNCHANGED <<bot_app, flaskUp, exitCode, req, env, errors>>
       \/ /\ InitializeFails
          /\ UNCHANGED <<bot_app, runner>>

GetMe ==
    /\ mainPc = "get_me"
    /\ \/ /\ mainPc' = "setup_webhook"
          /\ UNCHANGED <<bot_app, runner, flaskUp, exitCode, req, env, errors>>
       \/ /\ InitializeFails
          /\ UNCHANGED <<bot_app, runner>>

\* setup_webhook returns True or False and never raises; either way
\* initialize_bot goes on
SetupWebhook ==
    /\ mainPc = "setup_webhook"
    /\ mainPc' = "start"
    /\ UNCHANGED <<bot_app, runner, flaskUp, exitCode, req, env, errors>>

Start ==
    /\ mainPc = "start"
    /\ \/ /\ runner' = "Running"
          /\ mainPc' = "run_flask"
          /\ UNCHANGED <<bot_app, flaskUp, exitCode, req, env, errors>>
       \/ /\ InitializeFails
          /\ UNCHANGED <<bot_app, runner>>

\* main() starts the daemon thread that serves HTTP, then sleeps
StartFlaskThread ==
    /\ mainPc = "run_flask"
    /\ flaskUp' = TRUE
    /\ mainPc' = "sleeping"
    /\ UNCHANGED <<bot_app, runner, exitCode, req, env, errors>>

\* an interrupt while main() sleeps: raised inside main()'s try block, or
\* delivered to the event loop, which ends main() without its except branch
Interrupt ==
    /\ mainPc = "sleeping"
    /\ \/ /\ mainPc' = "stop"
          /\ UNCHANGED <<bot_app, runner, flaskUp, exitCode, req, env, errors>>
       \/ /\ mainPc' = "exited"
          /\ exitCode' = 0
          /\ UNCHANGED <<bot_app, runner, flaskUp, req, env, errors>>

Stop ==
    /\ mainPc = "stop"
    /\ runner' = "Stopped"
    /\ mainPc' = "shutdown"
    /\ UNCHANGED <<bot_app, flaskUp, exitCode, req, env, errors>>

Shutdown ==
    /\ mainPc = "shutdown"
    /\ mainPc' = "exited"
    /\ exitCode' = 0
    /\ UNCHANGED <<bot_app, runner, flaskUp, req, env, errors>>

Main ==
    \/ Validate
    \/ CreateBotApplication
    \/ Initialize
    \/ GetMe
    \/ SetupWebhook
    \/ Start
    \/ StartFlaskThread
    \/ Interrupt
    \/ Stop
    \/ Shutdown

(***************************************************************************)
(* The webhook route and the handlers, on HTTP thread t.                   *)
(***************************************************************************)
\* the HTTP threads run while the process does
Serving == flaskUp /\ mainPc # "exited"

Set(t, r) == req' = [req EXCEPT ![t] = r]

\* one message operation: a reply (a new message) or an edit of the
\* placeholder; ok is whether the bot client delivered it or raised
Op(op, text, ok) == [op |-> op, text |-> text, ok |-> ok]

\* a handler's only reply: delivered, the handler returns; raised, the
\* exception leaves the handler and the application calls error_handler
AfterReply(r, text, ok) ==
    [r EXCEPT !.sent = Append(@, Op("reply", text, ok)),
              !.pc = IF ok THEN "respond" ELSE "error_handler"]

\* the handler create_bot_application registered that takes the update
SelectHandler(u) ==
    CASE u.kind = "command" /\ u.name = "start" -> "start_command"
      [] u.kind = "command" /\ u.name = "help" -> "help_command"
      [] u.kind = "command" /\ u.name = "unban" -> "unban_command"
      [] u.kind = "text" -> "handle_direct_message"
      [] OTHER -> "none"

\* webhook(), up to the call of process_update
Webhook(t, U) ==
    /\ Serving
    /\ req[t].pc = "idle"
    /\ \E body \in Bodies(U) :
          LET r == [IdleReq EXCEPT !.route = "webhook", !.body = body.kind] IN
          IF ~bot_app
          THEN Set(t, [r EXCEPT !.pc = "done", !.resp = 503])
          ELSE \E json \in GetJson(body) :
                  CASE json = "raises" ->
                         Set(t, [r EXCEPT !.pc = "done", !.resp = 500])
                    [] json = "falsy" ->
                         Set(t, [r EXCEPT !.pc = "done", !.resp = 400])
                    [] json = "dict" ->
                         Set(t, [r EXCEPT !.pc = "process_update",
                                          !.upd = body.update,
                                          !.dispatched = TRUE])
    /\ UNCHANGED lifeVars

\* set_webhook_manual() that also initializes the bot application again
SetWebhookManual_Reinitializes(t) ==
    /\ Serving
    /\ req[t].pc = "idle"
    /\ LET r == [IdleReq EXCEPT !.route = "set_webhook", !.pc = "done"] IN
       IF ~bot_app
       THEN Set(t, [r EXCEPT !.resp = 503]) /\ runner' = runner
       ELSE /\ \E result \in BOOLEAN :
                 Set(t, [r EXCEPT !.resp = IF result THEN 200 ELSE 500])
            /\ runner' = "Initialized"
    /\ UNCHANGED <<env, errors, mainPc, bot_app, flaskUp, exitCode>>

\* set_webhook_manual(): setup_webhook(bot_app) returns True or False, and
\* touches the webhook registration only
SetWebhookManual(t) ==
    /\ Serving
    /\ req[t].pc = "idle"
    /\ LET r == [IdleReq EXCEPT !.route = "set_webhook", !.pc = "done"] IN
       IF ~bot_app
       THEN Set(t, [r EXCEPT !.resp = 503]) /\ runner' = runner
       ELSE /\ \E result \in BOOLEAN :
                 Set(t, [r EXCEPT !.resp = IF result THEN 200 ELSE 500])
            /\ runner' = runner
    /\ UNCHANGED <<env, errors, mainPc, bot_app, flaskUp, exitCode>>

\* process_update returned: webhook() answers 200
WebhookRespond(t) ==
    /\ Serving
    /\ req[t].pc = "respond"
    /\ Set(t, [req[t] EXCEPT !.pc = "done", !.resp = 200])
    /\ UNCHANGED lifeVars

\* the response is on the wire and thread t is free for the next request
Finish(t) ==
    /\ Serving
    /\ req[t].pc = "done"
    /\ Set(t, IdleReq)
    /\ UNCHANGED lifeVars

\* time passes while webhook() awaits process_update: the bounded wait of
\* the bridge, were there one, runs out before process_update returns
BoundElapses(t) ==
    /\ Serving
    /\ req[t].pc \notin {"idle", "respond", "done"}
    /\ ~req[t].expired
    /\ Set(t, [req[t] EXCEPT !.expired = TRUE])
    /\ UNCHANGED lifeVars

\* no handler takes the update
NoHandler(t) ==
    /\ Serving
    /\ req[t].pc = "process_update"
    /\ SelectHandler(req[t].upd) = "none"
    /\ Set(t, [req[t] EXCEPT !.pc = "respond"])
    /\ UNCHANGED lifeVars

StartCommand(t) ==
    /\ Serving
    /\ req[t].pc = "process_update"
    /\ SelectHandler(req[t].upd) = "start_command"
    /\ \E ok \in BOOLEAN : Set(t, AfterReply(req[t], WelcomeText, ok))
    /\ UNCHANGED lifeVars

HelpCommand(t) ==
    /\ Serving
    /\ req[t].pc = "process_update"
    /\ SelectHandler(req[t].upd) = "help_command"
    /\ \E ok \in BOOLEAN : Set(t, AfterReply(req[t], HelpText, ok))
    /\ UNCHANGED lifeVars

\* process_unban_request going on to the remote call after a failed reply
\* of the placeholder
ProcessUnbanRequest_IgnoresPlaceholder(t, user_id, M) ==
    LET r == [req[t] EXCEPT !.entered = TRUE, !.user_id = user_id] IN
    IF ~IntParses(user_id)
    THEN \E ok \in BOOLEAN :
            Set(t, AfterReply([r EXCEPT !.outcome = "InvalidId"], InvalidIdText, ok))
    ELSE \E ok \in BOOLEAN :
            Set(t, [r EXCEPT
               !.sent = Append(@, Op("reply", ProcessingText(user_id), ok)),
               !.placeholder = IF ok THEN "Processing" ELSE "none",
               !.pc = "unban_chat_member"])

\* process_unban_request up to its first remote call: int(user_id), then
\* the reply of the placeholder
ProcessUnbanRequest(t, user_id, M) ==
    LET r == [req[t] EXCEPT !.entered = TRUE, !.user_id = user_id] IN
    IF ~IntParses(user_id)
    THEN \E ok \in BOOLEAN :
            Set(t, AfterReply([r EXCEPT !.outcome = "InvalidId"], InvalidIdText, ok))
    ELSE \/ Set(t, [r EXCEPT
                  !.sent = Append(@, Op("reply", ProcessingText(user_id), TRUE)),
                  !.placeholder = "Processing",
                  !.pc = "unban_chat_member"])
         \/ \E m \in M :
               Set(t, [r EXCEPT
                  !.sent = Append(@, Op("reply", ProcessingText(user_id), FALSE)),
                  !.raised = "reply_html",
                  !.err = m,
                  !.pc = "except"])

\* context.args is None: an empty list passes
NoArgs_IsNone(args) == FALSE

\* not context.args
NoArgs(args) == args = <<>>

UnbanCommand(t, M) ==
    /\ Serving
    /\ req[t].pc = "process_update"
    /\ SelectHandler(req[t].upd) = "unban_command"
    /\ LET args == req[t].upd.args IN
       IF NoArgs(args)
       THEN \E ok \in BOOLEAN : Set(t, AfterReply(req[t], UsageText, ok))
       ELSE IF Len(args) = 0
       THEN \* context.args[0] raises IndexError
            Set(t, [req[t] EXCEPT !.pc = "error_handler"])
       ELSE ProcessUnbanRequest(t, Strip(args[1]), M)
    /\ UNCHANGED lifeVars

\* text.isdigit() and len(text) >= 4
LooksLikeUserId_FourDigits(text) == IsDigit(text) /\ Len(text) >= 4

\* text.isdigit() and len(text) >= 5
LooksLikeUserId(text) == IsDigit(text) /\ Len(text) >= 5

HandleDirectMessage(t, M) ==
    /\ Serving
    /\ req[t].pc = "process_update"
    /\ SelectHandler(req[t].upd) = "handle_direct_message"
    /\ LET text == Strip(req[t].upd.text) IN
       IF text = ""
       THEN Set(t, [req[t] EXCEPT !.pc = "respond"])
       ELSE IF LooksLikeUserId(text)
       THEN ProcessUnbanRequest(t, text, M)
       ELSE IF ~StartsWith(text, "/")
       THEN \E ok \in BOOLEAN : Set(t, AfterReply(req[t], GuidanceText, ok))
       ELSE Set(t, [req[t] EXCEPT !.pc = "respond"])
    /\ UNCHANGED lifeVars

\* the remote call with one more attempt after a first TimedOut
UnbanChatMember_Retry(t, M) ==
    /\ Serving
    /\ req[t].pc = "unban_chat_member"
    /\ LET call == [chat_id |-> CHANNEL_ID,
                    user_id |-> IntValue(req[t].user_id),
                    only_if_banned |-> TRUE]
           r == [req[t] EXCEPT !.calls = Append(@, call)]
       IN  \/ Set(t, [r EXCEPT !.pc = "edit_text"])
           \/ \E m \in M :
                 Set(t, [r EXCEPT !.raised = "unban_chat_member", !.err = m,
                                  !.pc = "except"])
           \/ IF req[t].calls = <<>>
              THEN Set(t, r)
              ELSE Set(t, [r EXCEPT !.raised = "unban_chat_member",
                                    !.err = TimedOutMessage, !.timedOut = TRUE,
                                    !.pc = "except"])
    /\ UNCHANGED lifeVars

\* the remote call: it returns, raises with a message, or the client's
\* timeout runs out and it raises TimedOut
UnbanChatMember(t, M) ==
    /\ Serving
    /\ req[t].pc = "unban_chat_member"
    /\ LET call == [chat_id |-> CHANNEL_ID,
                    user_id |-> IntValue(req[t].user_id),
                    only_if_banned |-> TRUE]
           r == [req[t] EXCEPT !.calls = Append(@, call)]
       IN  \/ Set(t, [r EXCEPT !.pc = "edit_text"])
           \/ \E m \in M :
                 Set(t, [r EXCEPT !.raised = "unban_chat_member", !.err = m,
                                  !.pc = "except"])
           \/ Set(t, [r EXCEPT !.raised = "unban_chat_member",
                               !.err = TimedOutMessage, !.timedOut = TRUE,
                               !.pc = "except"])
    /\ UNCHANGED lifeVars

\* processing_msg.edit_text of the Success text
EditText(t, M) ==
    /\ Serving
    /\ req[t].pc = "edit_text"
    /\ LET text == SuccessText(req[t].user_id) IN
       \/ Set(t, [req[t] EXCEPT !.sent = Append(@, Op("edit", text, TRUE)),
                                !.placeholder = "Success",
                                !.outcome = "Success",
                                !.pc = "respond"])
       \/ \E m \in M :
             Set(t, [req[t] EXCEPT !.sent = Append(@, Op("edit", text, FALSE)),
                                   !.raised = "edit_text",
                                   !.err = m,
                                   !.pc = "except"])
    /\ UNCHANGED lifeVars

\* the chain with "user not found" and "not banned" tested before
\* "chat not found"
ClassifyError_ChatLast(error_msg) ==
    IF Contains("not enough rights", error_msg) THEN "PermissionDenied"
    ELSE IF Contains("user not found", error_msg) THEN "UserNotFound"
    ELSE IF Contains("not banned", error_msg) THEN "NotBanned"
    ELSE IF Contains("chat not found", error_msg) THEN "ChatNotFound"
    ELSE "OtherError"

\* the chain with "chat not found" tested before "not enough rights"
ClassifyError_ChatFirst(error_msg) ==
    IF Contains("chat not found", error_msg) THEN "ChatNotFound"
    ELSE IF Contains("not enough rights", error_msg) THEN "PermissionDenied"
    ELSE IF Contains("user not found", error_msg) THEN "UserNotFound"
    ELSE IF Contains("not banned", error_msg) THEN "NotBanned"
    ELSE "OtherError"

\* the if/elif chain of the except Exception branch, on str(e).lower()
ClassifyError(error_msg) ==
    IF Contains("not enough rights", error_msg) THEN "PermissionDenied"
    ELSE IF Contains("chat not found", error_msg) THEN "ChatNotFound"
    ELSE IF Contains("user not found", error_msg) THEN "UserNotFound"
    ELSE IF Contains("not banned", error_msg) THEN "NotBanned"
    ELSE "OtherError"

\* the reply of each branch
ErrorReply(outcome, user_id, error_msg) ==
    CASE outcome = "PermissionDenied" -> PermissionDeniedText
      [] outcome = "ChatNotFound" -> ChatNotFoundText
      [] outcome = "UserNotFound" -> UserNotFoundText
      [] outcome = "NotBanned" -> NotBannedText(user_id)
      [] outcome = "OtherError" -> OtherErrorText(error_msg)

\* except Exception as e
ExceptException(t) ==
    /\ Serving
    /\ req[t].pc = "except"
    /\ LET error_msg == Lower(req[t].err)
           outcome == ClassifyError(error_msg)
           text == ErrorReply(outcome, req[t].user_id, error_msg)
       IN  \E ok \in BOOLEAN :
              Set(t, AfterReply([req[t] EXCEPT !.outcome = outcome], text, ok))
    /\ UNCHANGED lifeVars

\* error_handler without the try/except around its notification: the
\* exception of a failed notification leaves the dispatcher and the route
\* answers 500
ErrorHandler_NotSwallowed(t) ==
    /\ Serving
    /\ req[t].pc = "error_handler"
    /\ \/ Set(t, [req[t] EXCEPT !.sent = Append(@, Op("reply", GenericErrorText, TRUE)),
                                !.pc = "respond"])
       \/ Set(t, [req[t] EXCEPT !.sent = Append(@, Op("reply", GenericErrorText, FALSE)),
                                !.resp = 500,
                                !.pc = "done"])
    /\ UNCHANGED lifeVars

\* error_handler: one generic notification, its failure swallowed
ErrorHandler(t) ==
    /\ Serving
    /\ req[t].pc = "error_handler"
    /\ \E ok \in BOOLEAN :
          Set(t, [req[t] EXCEPT !.sent = Append(@, Op("reply", GenericErrorText, ok)),
                                !.pc = "respond"])
    /\ UNCHANGED lifeVars

\* one step of HTTP thread t, with updates U and error messages M drawn
Request(t, U, M) ==
    \/ Webhook(t, U)
    \/ SetWebhookManual(t)
    \/ NoHandler(t)
    \/ StartCommand(t)
    \/ HelpCommand(t)
    \/ UnbanCommand(t, M)
    \/ HandleDirectMessage(t, M)
    \/ UnbanChatMember(t, M)
    \/ EditText(t, M)
    \/ ExceptException(t)
    \/ ErrorHandler(t)
    \/ WebhookRespond(t)
    \/ Finish(t)
    \/ BoundElapses(t)

(***************************************************************************)
(* Specifications.  Spec draws every id string and a few error messages;   *)
(* SpecErrors draws a few updates and every error message.                 *)
(***************************************************************************)
Next == Main \/ Request(1, Updates, FewErrorMessages)

Spec == Init /\ [][Next]_vars

NextErrors == Main \/ Request(1, FewUpdates, ErrorMessages)

SpecErrors == Init /\ [][NextErrors]_vars

(***************************************************************************)
(* What the claims speak of.                                               *)
(***************************************************************************)
ErrorOutcomes ==
    {"PermissionDenied", "ChatNotFound", "UserNotFound", "NotBanned", "OtherError"}

\* the except Exception branch of process_unban_request has classified
Classified(r) == r.outcome \in ErrorOutcomes

\* ... an exception of the remote unban call
RemoteClassified(r) == Classified(r) /\ r.raised = "unban_chat_member"

\* the message operations of the handler itself (error_handler's is apart)
HandlerOps(r) == SelectSeq(r.sent, LAMBDA e : e.text.tmpl # "GenericError")

\* the handler's last message operation
LastHandlerOp(r) == HandlerOps(r)[Len(HandlerOps(r))]

\* the new messages delivered for the request
NewMessages(r) == SelectSeq(r.sent, LAMBDA e : e.op = "reply" /\ e.ok)

\* the handler the update selected has run up to its first remote call
HandlerRan(r) == r.pc \notin {"idle", "process_update"}

Shows(r, tmpl) == \E i \in 1..Len(r.sent) : r.sent[i].text.tmpl = tmpl

(***************************************************************************)
(* C1.  As claimed: the lower-cased error message is classified by the     *)
(* first match in the order "not enough rights", "user not found",         *)
(* "not banned", "chat not found", else OtherError, and the reply is that  *)
(* outcome's text; so a message with "chat not found" and "user not found" *)
(* (or "not banned") and no "not enough rights" gets the UserNotFound      *)
(* (NotBanned) reply.                                                      *)
(***************************************************************************)
C1_ClaimedOrder ==
    \A t \in ThreadIds :
        LET r == req[t]
            m == Lower(r.err)
        IN  RemoteClassified(r) =>
              /\ r.outcome =
                    (IF Contains("not enough rights", m) THEN "PermissionDenied"
                     ELSE IF Contains("user not found", m) THEN "UserNotFound"
                     ELSE IF Contains("not banned", m) THEN "NotBanned"
                     ELSE IF Contains("chat not found", m) THEN "ChatNotFound"
                     ELSE "OtherError")
              /\ LastHandlerOp(r).text.tmpl = r.outcome

(***************************************************************************)
(* C1, amended.  The lower-cased error message is classified by the first  *)
(* match in the order "not enough rights", "chat not found",               *)
(* "user not found", "not banned", else OtherError, and the reply is that  *)
(* outcome's text; so a message with "chat not found" and no               *)
(* "not enough rights" gets the ChatNotFound reply whatever else it holds. *)
(***************************************************************************)
C1_CodeOrder ==
    \A t \in ThreadIds :
        LET r == req[t]
            m == Lower(r.err)
            rights == Contains("not enough rights", m)
            chat == Contains("chat not found", m)
            user == Contains("user not found", m)
            banned == Contains("not banned", m)
        IN  RemoteClassified(r) =>
              /\ rights => r.outcome = "PermissionDenied"
              /\ ~rights /\ chat => r.outcome = "ChatNotFound"
              /\ ~rights /\ ~chat /\ user => r.outcome = "UserNotFound"
              /\ ~rights /\ ~chat /\ ~user /\ banned => r.outcome = "NotBanned"
              /\ ~rights /\ ~chat /\ ~user /\ ~banned => r.outcome = "OtherError"
              /\ LastHandlerOp(r).op = "reply"
              /\ LastHandlerOp(r).text.tmpl = r.outcome

\* the remote call raised with "user not found" and "chat not found" in its
\* message and the ChatNotFound reply was delivered
C1_Witness ==
    \E t \in ThreadIds :
        LET r == req[t]
        IN  /\ RemoteClassified(r)
            /\ Contains("user not found", Lower(r.err))
            /\ Contains("chat not found", Lower(r.err))
            /\ ~Contains("not enough rights", Lower(r.err))
            /\ LastHandlerOp(r) = Op("reply", ChatNotFoundText, TRUE)

(***************************************************************************)
(* C2.  An error message that holds "not enough rights" and                *)
(* "chat not found", in any letter case and either order, is classified    *)
(* PermissionDenied: the Permission Denied reply is sent and the Channel   *)
(* Not Found reply is not.                                                 *)
(***************************************************************************)
C2_RightsBeforeChat ==
    \A t \in ThreadIds :
        LET r == req[t]
        IN  ( /\ RemoteClassified(r)
              /\ Contains("not enough rights", Lower(r.err))
              /\ Contains("chat not found", Lower(r.err)) )
            => /\ r.outcome = "PermissionDenied"
               /\ LastHandlerOp(r).op = "reply"
               /\ LastHandlerOp(r).text = PermissionDeniedText
               /\ ~Shows(r, "ChatNotFound")

\* the remote call raised "CHAT NOT FOUND: Not Enough Rights" and the
\* Permission Denied reply was delivered
C2_Witness ==
    \E t \in ThreadIds :
        LET r == req[t]
        IN  /\ r.err = "CHAT NOT FOUND: Not Enough Rights"
            /\ r.raised = "unban_chat_member"
            /\ r.outcome = "PermissionDenied"
            /\ LastHandlerOp(r) = Op("reply", PermissionDeniedText, TRUE)

(***************************************************************************)
(* C3.  As claimed: an id string that is not made of ASCII digits only     *)
(* (a signed one, such as the argument "-1" of /unban, among them) yields  *)
(* InvalidId: the Invalid User ID reply is sent and the remote unban call  *)
(* is not made.  Stated of the requests whose message operations all       *)
(* succeed.                                                                *)
(***************************************************************************)
C3_NonDigitsAreInvalid ==
    \A t \in ThreadIds :
        LET r == req[t]
        IN  ( /\ r.entered
              /\ ~IsDigit(r.user_id)
              /\ r.pc = "done"
              /\ \A i \in 1..Len(r.sent) : r.sent[i].ok )
            => /\ r.outcome = "InvalidId"
               /\ r.sent # <<>>
               /\ r.sent[1].text = InvalidIdText
               /\ r.calls = <<>>

(***************************************************************************)
(* C4.  As claimed: when the remote unban call does not return within the  *)
(* bound, the use-case yields the Timeout outcome and exactly one          *)
(* "timed out" reply is delivered for the request.                         *)
(***************************************************************************)
C4_TimeoutOutcome ==
    \A t \in ThreadIds :
        LET r == req[t]
        IN  (r.timedOut /\ r.pc = "done" /\ \A i \in 1..Len(r.sent) : r.sent[i].ok)
            => /\ r.outcome = "Timeout"
               /\ Len(NewMessages(r)) = 1
               /\ NewMessages(r)[1].text.tmpl = "Timeout"

(***************************************************************************)
(* C5.  /unban with an empty argument list sends the usage reply, makes no *)
(* remote unban call and sends no processing placeholder.                  *)
(***************************************************************************)
C5_NoArgsUsage ==
    \A t \in ThreadIds :
        LET r == req[t]
        IN  (r.upd.kind = "command" /\ r.upd.name = "unban" /\ r.upd.args = <<>>
                /\ HandlerRan(r))
            => /\ r.sent # <<>>
               /\ r.sent[1].op = "reply"
               /\ r.sent[1].text = UsageText
               /\ Len(HandlerOps(r)) = 1
               /\ ~Shows(r, "Processing")
               /\ ~r.entered
               /\ r.calls = <<>>

\* /unban without argument was answered with the usage reply and 200
C5_Witness ==
    \E t \in ThreadIds :
        LET r == req[t]
        IN  /\ r.upd = Command("unban", <<>>)
            /\ r.pc = "done"
            /\ r.resp = 200
            /\ r.sent = <<Op("reply", UsageText, TRUE)>>
            /\ r.calls = <<>>

(***************************************************************************)
(* C6.  For the trimmed text of a direct message: the unban use-case is    *)
(* entered exactly when the text is all digits and at least 5 long; a      *)
(* shorter all-digit text, and any other non-empty text that does not      *)
(* start with "/", gets the guidance reply and nothing else, with no       *)
(* remote unban call.                                                      *)
(***************************************************************************)
C6_DirectMessage ==
    \A t \in ThreadIds :
        LET r == req[t]
            text == Strip(r.upd.text)
            id == /\ text # ""
                  /\ \A i \in 1..Len(text) : SubSeq(text, i, i) \in DigitChars
                  /\ Len(text) >= 5
        IN  (r.upd.kind = "text" /\ HandlerRan(r))
            => /\ r.entered <=> id
               /\ (text # "" /\ ~id /\ SubSeq(text, 1, 1) # "/")
                  => /\ r.sent # <<>>
                     /\ r.sent[1].op = "reply"
                     /\ r.sent[1].text = GuidanceText
                     /\ Len(HandlerOps(r)) = 1
                     /\ r.calls = <<>>

\* a direct message of fewer than 5 digits was answered with the guidance reply
C6_Witness ==
    \E t \in ThreadIds :
        LET r == req[t]
        IN  /\ r.upd.kind = "text"
            /\ IsDigit(Strip(r.upd.text))
            /\ Len(Strip(r.upd.text)) = 4
            /\ r.pc = "done"
            /\ ~r.entered
            /\ r.sent = <<Op("reply", GuidanceText, TRUE)>>

(***************************************************************************)
(* C7.  As claimed: a POST to the webhook that arrives while the runner is *)
(* not Running is answered 503 and starts no dispatcher invocation.        *)
(***************************************************************************)
C7_NotRunning503 ==
    [][\A t \in ThreadIds :
          (/\ runner # "Running"
           /\ req[t].pc = "idle"
           /\ req'[t].pc # "idle"
           /\ req'[t].route = "webhook")
          => (req'[t].resp = 503 /\ ~req'[t].dispatched)]_vars

(***************************************************************************)
(* C8.  As claimed: when the bounded wait runs out before the dispatcher   *)
(* invocation completes, the webhook request is answered 202.              *)
(***************************************************************************)
C8_BoundedWait202 ==
    \A t \in ThreadIds :
        LET r == req[t]
        IN  (r.pc = "done" /\ r.expired) => r.resp = 202

(***************************************************************************)
(* C9.  As claimed: with the bot initialized, a POST whose body is missing *)
(* or does not parse as JSON is answered 400 and dispatches nothing, and   *)
(* an update that is processed is answered 200.                            *)
(***************************************************************************)
C9_BadBody400 ==
    \A t \in ThreadIds :
        LET r == req[t]
        IN  (r.pc = "done" /\ bot_app)
            => /\ r.body \in {"malformed", "not_json"}
                    => (r.resp = 400 /\ ~r.dispatched)
               /\ r.body = "update" => r.resp = 200

(***************************************************************************)
(* C10.  As claimed: over every outcome of the unban use-case, a request   *)
(* whose message operations all succeed produces exactly one new message,  *)
(* and its placeholder does not stay at "Processing...".                   *)
(***************************************************************************)
C10_OneReplyEdited ==
    \A t \in ThreadIds :
        LET r == req[t]
        IN  (r.pc = "done" /\ r.entered /\ \A i \in 1..Len(r.sent) : r.sent[i].ok)
            => /\ Len(NewMessages(r)) = 1
               /\ r.placeholder # "Processing"

(***************************************************************************)
(* C11.  As claimed: when the remote unban call on a digit string returns  *)
(* without raising, the outcome is Success, the last reply the user sees   *)
(* is the Success text with that id and the configured channel id, and no  *)
(* error text is sent for the request, whatever the message operations     *)
(* after the remote call do.                                               *)
(***************************************************************************)
C11_ReturnedIsSuccess ==
    \A t \in ThreadIds :
        LET r == req[t]
        IN  (/\ r.pc = "done"
             /\ IsDigit(r.user_id)
             /\ r.calls # <<>>
             /\ r.raised # "unban_chat_member")
            => /\ r.outcome = "Success"
               /\ LastHandlerOp(r).text = SuccessText(r.user_id)
               /\ LastHandlerOp(r).text.channel = TheChannel
               /\ \A o \in ErrorOutcomes : ~Shows(r, o)
               /\ ~Shows(r, "InvalidId")

\* the notifications of error_handler among the message operations
GenericOps(r) == SelectSeq(r.sent, LAMBDA e : e.text.tmpl = "GenericError")

(***************************************************************************)
(* C12.  An exception that leaves a handler (a failed reply, also one sent *)
(* from the except branches of process_unban_request) goes to              *)
(* error_handler and not out of the dispatcher: error_handler attempts one *)
(* generic notification and no more, a failure of that notification is     *)
(* swallowed, a dispatched request is never answered 500, and no step of a *)
(* request changes the state of the runner.                                *)
(***************************************************************************)
C12_ErrorsContained ==
    [][\A t \in ThreadIds :
          LET r == req[t]
              r2 == req'[t]
          IN  /\ r2.dispatched => r2.resp \in {0, 200}
              /\ Len(GenericOps(r2)) <= 1
              /\ (r.pc = "error_handler" /\ r2.pc # "error_handler")
                 => /\ r2.pc = "respond"
                    /\ Len(GenericOps(r2)) = 1
              /\ (r.pc # "error_handler" /\ r2.pc = "error_handler")
                 => /\ ~LastHandlerOp(r2).ok
                    /\ GenericOps(r2) = <<>>
              /\ r2 # r => (runner' = runner /\ bot_app' = bot_app)]_vars

\* an error reply of the except branch failed, the generic notification
\* failed too, and the request is answered 200 with the runner running
C12_Witness ==
    \E t \in ThreadIds :
        LET r == req[t]
        IN  /\ r.pc = "done"
            /\ r.resp = 200
            /\ Classified(r)
            /\ ~LastHandlerOp(r).ok
            /\ Len(GenericOps(r)) = 1
            /\ ~GenericOps(r)[1].ok
            /\ runner = "Running"

(***************************************************************************)
(* C13.  A request invokes the remote unban call at most once, and every   *)
(* invocation has the configured channel id, the integer its id string     *)
(* parses to, and only_if_banned true; the error paths invoke it no more.  *)
(***************************************************************************)
C13_OneRemoteCall ==
    \A t \in ThreadIds :
        LET r == req[t]
        IN  /\ Len(r.calls) <= 1
            /\ r.calls # <<>> =>
                 /\ r.entered
                 /\ IntParses(r.user_id)
                 /\ r.calls[1].chat_id = CHANNEL_ID
                 /\ r.calls[1].user_id = IntValue(r.user_id)
                 /\ r.calls[1].only_if_banned

\* the remote call raised and the request went through the except branch and
\* error_handler to its answer, with the one invocation
C13_Witness ==
    \E t \in ThreadIds :
        LET r == req[t]
        IN  /\ r.pc = "done"
            /\ r.raised = "unban_chat_member"
            /\ Classified(r)
            /\ GenericOps(r) # <<>>
            /\ Len(r.calls) = 1

(***************************************************************************)
(* The HTTP server's worker threads (serve(..., threads=4); two of them     *)
(* here), each running the webhook route for its own request.              *)
(***************************************************************************)
ThreadErrorMessages == {"chat not found"}

NextThreads == Main \/ \E t \in ThreadIds : Request(t, FewUpdates, ThreadErrorMessages)

SpecThreads == Init /\ [][NextThreads]_vars

\* process_update has been entered for the request and has not returned
InDispatcher(r) == r.dispatched /\ r.pc \notin {"idle", "respond", "done"}

(***************************************************************************)
(* C14.  As claimed: the HTTP request threads only hand their update over  *)
(* and do not run process_update themselves, so the dispatcher invocations *)
(* of two HTTP request threads are never in progress at the same time.     *)
(***************************************************************************)
C14_OneDispatcherAtATime ==
    \A t1, t2 \in ThreadIds :
        t1 # t2 => ~(InDispatcher(req[t1]) /\ InDispatcher(req[t2]))

(***************************************************************************)
(* GET /health: the answer the route computes from bot_app and             *)
(* bot_app.running.                                                        *)
(***************************************************************************)
\* bot_status = "running" if bot_app else "starting"
health_BotAppOnly ==
    [code |-> 200,
     status |-> "healthy",
     bot |-> IF bot_app THEN "running" ELSE "starting"]

\* bot_status = "running" if bot_app and bot_app.running else "starting"
health ==
    [code |-> 200,
     status |-> "healthy",
     bot |-> IF bot_app /\ runner = "Running" THEN "running" ELSE "starting"]

Reported == {errors[i] : i \in 1..Len(errors)}

C17_RunnerOnlyAdvances ==
    [][/\ runner' # runner =>
            <<runner, runner'>> \in {<<"Starting", "Initialized">>,
                                     <<"Initialized", "Running">>,
                                     <<"Running", "Stopped">>}
       /\ runner = "Stopped" => runner' = "Stopped"
       /\ (\E t \in ThreadIds : req'[t] # req[t]) => runner' = runner]_vars

\* the manual set-webhook route has answered 200 after the runner stopped
C17_Witness ==
    /\ runner = "Stopped"
    /\ \E t \in ThreadIds :
          /\ req[t].route = "set_webhook"
          /\ req[t].pc = "done"
          /\ req[t].resp = 200

(***************************************************************************)
(* C18.  Under main() the HTTP thread is started only after initialize_bot *)
(* has returned True: while HTTP is served the bot application exists and  *)
(* has been started; a process that exited with code 1 never started the   *)
(* HTTP thread and served no request; and no request of either POST route  *)
(* is answered 503 for a missing bot application.                          *)
(***************************************************************************)
C18_ServedOnlyAfterInit ==
    /\ flaskUp =>
          /\ bot_app
          /\ runner \in {"Running", "Stopped"}
          /\ mainPc \in {"sleeping", "stop", "shutdown", "exited"}
    /\ exitCode = 1 =>
          /\ mainPc = "exited"
          /\ ~flaskUp
          /\ \A t \in ThreadIds : req[t] = IdleReq
    /\ \A t \in ThreadIds :
          /\ req[t].pc # "idle" => (flaskUp /\ bot_app)
          /\ req[t].resp # 503

\* a webhook request has been dispatched and answered while main() sleeps
C18_Witness ==
    /\ mainPc = "sleeping"
    /\ \E t \in ThreadIds :
          /\ req[t].route = "webhook"
          /\ req[t].dispatched
          /\ req[t].pc = "done"
          /\ req[t].resp = 200

(***************************************************************************)
(* C19.  For an id string that parses as an integer, the first message     *)
(* operation of process_unban_request is the reply of the "Processing"     *)
(* placeholder, attempted before any remote call; the remote call is made  *)
(* if and only if that reply succeeded; and when the reply raises there is *)
(* no remote call and the reply's error message goes through the same      *)
(* chain of substrings as a remote error, with that outcome's reply.       *)
(***************************************************************************)
C19_PlaceholderGatesRemoteCall ==
    \A t \in ThreadIds :
        LET r == req[t]
            m == Lower(r.err)
        IN  (r.entered /\ IntParses(r.user_id)) =>
              /\ r.sent # <<>>
              /\ r.sent[1].op = "reply"
              /\ r.sent[1].text = ProcessingText(r.user_id)
              /\ r.calls # <<>> => r.sent[1].ok
              /\ (r.sent[1].ok /\ r.pc # "unban_chat_member") => Len(r.calls) = 1
              /\ ~r.sent[1].ok =>
                    /\ r.calls = <<>>
                    /\ r.raised = "reply_html"
                    /\ r.pc # "except" =>
                          /\ r.outcome =
                                (IF Contains("not enough rights", m)
                                    THEN "PermissionDenied"
                                 ELSE IF Contains("chat not found", m)
                                    THEN "ChatNotFound"
                                 ELSE IF Contains("user not found", m)
                                    THEN "UserNotFound"
                                 ELSE IF Contains("not banned", m)
                                    THEN "NotBanned"
                                 ELSE "OtherError")
                          /\ Len(r.sent) >= 2
                          /\ r.sent[2].text.tmpl = r.outcome

\* the reply of the placeholder raised "chat not found": no remote call, and
\* the ChatNotFound reply
C19_Witness ==
    \E t \in ThreadIds :
        LET r == req[t]
        IN  /\ r.pc = "done"
            /\ IntParses(r.user_id)
            /\ ~r.sent[1].ok
            /\ r.sent[1].text.tmpl = "Processing"
            /\ Contains("chat not found", Lower(r.err))
            /\ r.outcome = "ChatNotFound"
            /\ r.calls = <<>>

====
